---- MODULE Spec2Model ----
(***************************************************************************)
(* Model of src/main.py: the /find_jobs handler of the vacancy search      *)
(* service and the VacancyEngine rule it drives.                           *)
(*                                                                         *)
(* Python values are tagged records, so that a value of the wrong type is  *)
(* a value of the model and a comparison on it can fail as it does in      *)
(* Python:  None -> [none |-> TRUE], 7 -> [int |-> 7], "x" -> [str |-> "x"]*)
(* {"k": v} -> [obj |-> [k |-> v]], a key that is not there ->             *)
(* [absent |-> TRUE].  The city names of the source are transliterated     *)
(* ("Moskva" for the literal of line 166).                                 *)
(***************************************************************************)
EXTENDS Integers, Sequences, FiniteSets, TLC

VARIABLES
    pc,       \* per request: position inside find_jobs
    req,      \* per request: the JobSearchRequest (salary)
    resp,     \* per request: what the upstream API answers
    locals,   \* per request: the local variables salary, i
    engines,  \* the VacancyEngine objects, one per request
    result,   \* per request: the list find_jobs returns
    error     \* per request: the exception that ended it, or "none"

vars == <<pc, req, resp, locals, engines, result, error>>

----------------------------------------------------------------------------
(* Bounds of the model.                                                    *)
MaxItems == 2       \* longest upstream item list (find_jobs specification)
MaxFeed == 4        \* longest list of facts declared by the engine driver
MaxConcItems == 1   \* longest item list when two requests interleave

----------------------------------------------------------------------------
(* Python values.                                                          *)
PyNone == [none |-> TRUE]
Absent == [absent |-> TRUE]
PyInt(n) == [int |-> n]
PyStr(s) == [str |-> s]
PyObj(o) == [obj |-> o]
\* {} : a dict none of whose keys is there (the defaults of lines 147-151)
EmptyNamed == [obj |-> [name |-> Absent]]
EmptySalary == [obj |-> [from |-> Absent, to |-> Absent]]

IsInt(v) == "int" \in DOMAIN v
IsStr(v) == "str" \in DOMAIN v
IsObj(v) == "obj" \in DOMAIN v
IsNone(v) == "none" \in DOMAIN v

\* bool(v), as `if salary` evaluates it (lines 152-153)
Truthy(v) ==
    IF IsInt(v) THEN v.int # 0
    ELSE IF IsStr(v) THEN v.str # ""
    ELSE IF IsObj(v) THEN \E k \in DOMAIN v.obj : v.obj[k] # Absent
    ELSE FALSE

\* d.get(key, default) on a dict d (lines 146-153)
DictGet(d, key, default) ==
    IF key \in DOMAIN d.obj /\ d.obj[key] # Absent THEN d.obj[key] ELSE default

\* x if x is not None else 0 (lines 160-161)
KeepNone(v) == v

OrZero(v) == IF IsNone(v) THEN PyInt(0) ELSE v

SeqRange(s) == {s[k] : k \in 1..Len(s)}

\* The strings the model orders or parses, in Python's order of str (by
\* code point): "", the digits, then lower-case letters.
StrOrder == <<"", "0", "1", "2", "3", "4", "5", "6", "7", "8", "9", "a", "b", "c">>
StrRank(s) == CHOOSE k \in 1..Len(StrOrder) : StrOrder[k] = s

\* a >= b and a <= b between Python values (lines 87-88): two int are
\* ordered as numbers, two str as strings, anything else is a TypeError.
Orderable(a, b) == (IsInt(a) /\ IsInt(b)) \/ (IsStr(a) /\ IsStr(b))
PyGeq(a, b) == IF IsInt(a) THEN a.int >= b.int ELSE StrRank(a.str) >= StrRank(b.str)
PyLeq(a, b) == IF IsInt(a) THEN a.int <= b.int ELSE StrRank(a.str) <= StrRank(b.str)

\* int(s) as the validation of an int field parses a str (lines 29-30):
\* a string of digits is its number, any other string is no number.
IsNumeric(s) == StrRank(s) \in 2..11
IntOfStr(s) == StrRank(s) - 2

----------------------------------------------------------------------------
(* Facts (lines 52-74).  A fact is its kind and its fields.                *)
InitialFact == [kind |-> "InitialFact"]

User(salaryPrefer) == [kind |-> "User", salaryPrefer |-> salaryPrefer]

InputLocation(inputLocation) ==
    [kind |-> "InputLocation", inputLocation |-> inputLocation]

Vacancy(position, company, location, from_salary, to_salary) ==
    [kind |-> "Vacancy", position |-> position, company |-> company,
     location |-> location, from_salary |-> from_salary, to_salary |-> to_salary]

AnswerVacancies(position, company, location, from_salary, to_salary) ==
    [kind |-> "AnswerVacancies", position |-> position, company |-> company,
     location |-> location, from_salary |-> from_salary, to_salary |-> to_salary]

----------------------------------------------------------------------------
(* One iteration of the loop over the upstream items (lines 145-162):      *)
(* the record is read with .get, the local variable salary is assigned     *)
(* the record's "salary" value (line 151), and a Vacancy fact is built.    *)
(* err is "AttributeError" when .get is called on a value that is no dict; *)
(* salary is then Absent when line 151 was not reached, and the value      *)
(* line 151 assigned when it is line 152 that raises.                      *)
ConvertRecord(vacancy) ==
    LET employer == DictGet(vacancy, "employer", EmptyNamed)
        area     == DictGet(vacancy, "area", EmptyNamed)
        salary   == DictGet(vacancy, "salary", EmptySalary)
        position == DictGet(vacancy, "name", PyNone)
        salary_from == IF Truthy(salary) THEN DictGet(salary, "from", PyNone) ELSE PyNone
        salary_to   == IF Truthy(salary) THEN DictGet(salary, "to", PyNone) ELSE PyNone
    IN  IF ~IsObj(vacancy) \/ ~IsObj(employer) \/ ~IsObj(area)
        THEN [err |-> "AttributeError", salary |-> Absent, fact |-> InitialFact]
        ELSE IF Truthy(salary) /\ ~IsObj(salary)
        THEN [err |-> "AttributeError", salary |-> salary, fact |-> InitialFact]
        ELSE [err |-> "none", salary |-> salary,
              fact |-> Vacancy(position,
                               DictGet(employer, "name", PyNone),
                               DictGet(area, "name", PyNone),
                               OrZero(salary_from), OrZero(salary_to))]

----------------------------------------------------------------------------
(* The rule of VacancyEngine (lines 76-100).                               *)

\* The TEST lambda (lines 87-88): "true", "false", or "TypeError" when an
\* ordering comparison meets two operands Python does not order.  `and`
\* evaluates left to right and stops at the first false operand.
TestSalaryAndLocation(salaryPrefer, from_salary, to_salary, inputLocation, location) ==
    IF ~Orderable(salaryPrefer, from_salary) THEN "TypeError"
    ELSE IF ~PyGeq(salaryPrefer, from_salary) THEN "false"
    ELSE IF ~Orderable(salaryPrefer, to_salary) THEN "TypeError"
    ELSE IF ~PyLeq(salaryPrefer, to_salary) THEN "false"
    ELSE IF location = inputLocation THEN "true" ELSE "false"

\* The positions in the fact list of the facts of one kind.
OfKind(facts, kind) == {k \in 1..Len(facts) : facts[k].kind = kind}

\* The three patterns of the rule bind every field to its own variable, so
\* every (User, InputLocation, Vacancy) triple reaches the TEST
\* (lines 78-86).  Tokens(facts, n): the triples that the fact at n completes.
Tokens(facts, n) ==
    {t \in [user : OfKind(facts, "User"), loc : OfKind(facts, "InputLocation"),
            vac : OfKind(facts, "Vacancy")] : n \in {t.user, t.loc, t.vac}}

TestOf(facts, t) ==
    TestSalaryAndLocation(facts[t.user].salaryPrefer,
                          facts[t.vac].from_salary, facts[t.vac].to_salary,
                          facts[t.loc].inputLocation, facts[t.vac].location)

\* The action of the rule (lines 90-100): the fact it declares.
RuleAction(vacancy) ==
    AnswerVacancies(vacancy.position, vacancy.company, vacancy.location,
                    vacancy.from_salary, vacancy.to_salary)

----------------------------------------------------------------------------
(* The engine object: KnowledgeEngine as VacancyEngine uses it.            *)
(* facts: the fact list in declaration order; agenda: the activations      *)
(* waiting to fire; running: inside run(); fired: the activations run()    *)
(* has executed, in order.  The engine's own code is not part of src/:  *)
(* its fact list, matching and run loop are modelled from sections 4.1     *)
(* and 4.2 of the specification.                                           *)
(* duplicates: what the fact list does with a declared fact equal to one   *)
(* it holds.  Section 4.1 has it inserted as a second fact ("kept"); the   *)
(* rule-engine library has a duplication setting, which the source never   *)
(* touches (lines 142-143), and with it off declare() inserts no fact      *)
(* equal to one in the list, equal being the same field values in a fact   *)
(* of the same class ("same_kind") or of any class ("same_fields").  An    *)
(* engine is built with any of the three.                                  *)
DuplicatePolicies == {"kept", "same_kind", "same_fields"}

\* VacancyEngine() (line 142)
NewEngine(duplicates) ==
    [facts |-> <<>>, agenda |-> {}, running |-> FALSE, fired |-> <<>>,
     duplicates |-> duplicates]

\* engine.reset() (line 143): an empty fact list holding InitialFact
Reset(e) == [facts |-> <<InitialFact>>, agenda |-> {}, running |-> FALSE,
             fired |-> <<>>, duplicates |-> e.duplicates]

\* f and g have the same fields with the same values, whatever their kind.
SameFields(f, g) ==
    /\ DOMAIN f = DOMAIN g
    /\ \A k \in DOMAIN f \ {"kind"} : f[k] = g[k]

\* The fact list holds a fact that makes f a duplicate.
Held(facts, f, duplicates) ==
    /\ duplicates # "kept"
    /\ \E g \in SeqRange(facts) :
           /\ SameFields(f, g)
           /\ duplicates = "same_kind" => f.kind = g.kind

\* The fact list after declare(f).
FactListDeclare(facts, f, duplicates) ==
    IF Held(facts, f, duplicates) THEN facts ELSE Append(facts, f)

\* The activations the newly inserted fact at position n brings, or the
\* TypeError its TEST raises.
Match(e, facts, n) ==
    LET toks == Tokens(facts, n)
    IN  IF \E t \in toks : TestOf(facts, t) = "TypeError"
        THEN [err |-> "TypeError", engine |-> [e EXCEPT !.facts = facts]]
        ELSE [err |-> "none",
              engine |-> [e EXCEPT !.facts = facts,
                                   !.agenda = @ \cup {t \in toks : TestOf(facts, t) = "true"}]]

\* engine.declare(f) outside run() (lines 156-166): insert, then match.
Declare(e, f) ==
    LET facts == FactListDeclare(e.facts, f, e.duplicates)
    IN  IF Len(facts) = Len(e.facts)
        THEN [err |-> "none", engine |-> e]
        ELSE Match(e, facts, Len(facts))

\* Firing order (section 4.2: one rule, so combination discovery order):
\* the activation completed earliest goes first.  The key of an activation
\* is its fact positions, highest first.
Max3(a, b, c) == IF a >= b /\ a >= c THEN a ELSE IF b >= c THEN b ELSE c
Min3(a, b, c) == IF a <= b /\ a <= c THEN a ELSE IF b <= c THEN b ELSE c
Key(t) == LET hi == Max3(t.user, t.loc, t.vac)
              lo == Min3(t.user, t.loc, t.vac)
          IN  <<hi, t.user + t.loc + t.vac - hi - lo, lo>>
KeyLeq(a, b) ==
    \/ a[1] < b[1]
    \/ a[1] = b[1] /\ a[2] < b[2]
    \/ a[1] = b[1] /\ a[2] = b[2] /\ a[3] <= b[3]
NextActivation(agenda) ==
    CHOOSE t \in agenda : \A o \in agenda : KeyLeq(Key(t), Key(o))

\* One turn of the loop of run() (line 168): the activation t is taken off
\* the agenda and the rule is executed on it (the declare of lines 92-100,
\* which leaves the fact list `facts`); the fact it inserted is matched.
Fired(e, t, facts) ==
    LET e2 == [e EXCEPT !.agenda = @ \ {t}, !.fired = Append(@, t)]
    IN  IF Len(facts) = Len(e.facts)
        THEN [err |-> "none", engine |-> e2]
        ELSE Match(e2, facts, Len(facts))

FireOne(e) ==
    LET t == NextActivation(e.agenda)
    IN  Fired(e, t, FactListDeclare(e.facts, RuleAction(e.facts[t.vac]), e.duplicates))

\* run() to its end, as a function of the engine before it.
RECURSIVE RunToEnd(_)
RunToEnd(e) ==
    IF e.agenda = {} THEN [err |-> "none", engine |-> e]
    ELSE LET r == FireOne(e)
         IN  IF r.err # "none" THEN r ELSE RunToEnd(r.engine)

----------------------------------------------------------------------------
(* The result of find_jobs (lines 170-183).                                *)
\* VacancyResponse declares position, company and location as str and the
\* salary bounds as int (lines 25-32).  An int field takes an int, or a
\* str that parses as one and is converted; None, a dict or any other str
\* fails the validation.
ValidInt(v) == IsInt(v) \/ (IsStr(v) /\ IsNumeric(v.str))
AsInt(v) == IF IsStr(v) THEN PyInt(IntOfStr(v.str)) ELSE v

ValidResponse(fact) ==
    /\ IsStr(fact.position) /\ IsStr(fact.company) /\ IsStr(fact.location)
    /\ ValidInt(fact.from_salary) /\ ValidInt(fact.to_salary)

VacancyResponse(fact) ==
    [position |-> fact.position, company |-> fact.company,
     location |-> fact.location, from_salary |-> AsInt(fact.from_salary),
     to_salary |-> AsInt(fact.to_salary), currency |-> "RUR", link |-> ""]

RECURSIVE SelectAnswers(_)
SelectAnswers(facts) ==
    IF facts = <<>> THEN <<>>
    ELSE IF Head(facts).kind = "AnswerVacancies"
         THEN <<Head(facts)>> \o SelectAnswers(Tail(facts))
         ELSE SelectAnswers(Tail(facts))

\* The loop of lines 171-181 over engine.facts.values().
Extract(facts) ==
    LET answers == SelectAnswers(facts)
    IN  IF \E k \in 1..Len(answers) : ~ValidResponse(answers[k])
        THEN [err |-> "ValidationError", result |-> <<>>]
        ELSE [err |-> "none",
              result |-> [k \in 1..Len(answers) |-> VacancyResponse(answers[k])]]

----------------------------------------------------------------------------
(* Inputs.                                                                 *)
Named(n) == PyObj([name |-> PyStr(n)])
SalaryObj(f, t) == PyObj([from |-> f, to |-> t])
Record(name, employer, area, salary) ==
    PyObj([name |-> name, employer |-> employer, area |-> area, salary |-> salary])

\* The "salary" values an upstream record carries: no key, null, a number
\* that is falsy, objects with or without either bound, and an object
\* whose bounds are strings.
SalaryValues ==
    {Absent, PyNone, PyInt(0), SalaryObj(PyInt(1), PyInt(2)),
     SalaryObj(PyNone, PyInt(2)), SalaryObj(PyInt(0), PyNone),
     SalaryObj(PyStr("5"), PyStr("5"))}

\* The upstream records of the find_jobs specification: complete records
\* in two cities, records with a key missing, and three malformed ones (a
\* null employer, a salary that is a number other than 0, a null item).
UpstreamRecords ==
    {Record(PyStr("dev"), Named("acme"), Named(a), sal) :
        a \in {"Moskva", "SPb"}, sal \in SalaryValues}
    \cup {Record(Absent, Named("acme"), Named("Moskva"), PyInt(0)),
          Record(PyStr("dev"), Absent, Named("Moskva"), PyInt(0)),
          Record(PyStr("dev"), Named("acme"), Absent, PyInt(0)),
          Record(PyStr("dev"), PyNone, Named("Moskva"), PyInt(0)),
          Record(PyStr("dev"), Named("acme"), Named("Moskva"), PyInt(5)),
          PyNone}

SeqsUpTo(S, n) == UNION {[1..k -> S] : k \in 0..n}

\* What the upstream API can answer: a transport or status error
\* ("http_error"), a body that is no JSON ("bad_json"), a JSON body that
\* is no object, such as null or a number ("not_object"), an object
\* without "items" ("no_items"), an object whose "items" is a value that
\* is truthy and cannot be iterated, such as 5 ("items_not_iterable"), or
\* an object whose "items" is a list ("items").
ResponsesOver(records, n) ==
    {[kind |-> k, items |-> <<>>] :
        k \in {"http_error", "bad_json", "not_object", "no_items", "items_not_iterable"}}
    \cup {[kind |-> "items", items |-> it] : it \in SeqsUpTo(records, n)}

UpstreamResponses == ResponsesOver(UpstreamRecords, MaxItems)
RequestSalaries == {0, 2}

NoRequest == [none |-> TRUE]
NoResponse == [kind |-> "none", items |-> <<>>]
NoLocals == [salary |-> Absent, i |-> 0]
NoEngine == NewEngine("kept")

----------------------------------------------------------------------------
(* find_jobs (lines 104-183), one action per step of the handler.          *)
Slots == DOMAIN pc

\* engine = VacancyEngine() (line 142): every call builds its own object.
OneEngineForAll(r) == 1

EngineOf(r) == r

Fail(r, e) ==
    /\ pc' = [pc EXCEPT ![r] = "failed"]
    /\ error' = [error EXCEPT ![r] = e]

\* A request arrives (lines 104-110): salary = request.salary.
Receive(r, salaries, responses) ==
    /\ pc[r] = "idle"
    /\ \E s \in salaries, up \in responses :
         /\ req' = [req EXCEPT ![r] = [salary |-> s]]
         /\ resp' = [resp EXCEPT ![r] = up]
         /\ locals' = [locals EXCEPT ![r] = [salary |-> PyInt(s), i |-> 1]]
    /\ pc' = [pc EXCEPT ![r] = "fetch"]
    /\ result' = [result EXCEPT ![r] = <<>>]
    /\ error' = [error EXCEPT ![r] = "none"]
    /\ UNCHANGED engines

\* requests.get and raise_for_status (lines 119-129).
Fetch(r) ==
    /\ pc[r] = "fetch"
    /\ IF resp[r].kind = "http_error"
       THEN Fail(r, "HTTPException")
       ELSE pc' = [pc EXCEPT ![r] = "parse"] /\ UNCHANGED error
    /\ UNCHANGED <<req, resp, locals, engines, result>>

\* vacancies_data = response.json() (line 131), outside the try block.
ParseJson(r) ==
    /\ pc[r] = "parse"
    /\ IF resp[r].kind = "bad_json"
       THEN Fail(r, "JSONDecodeError")
       ELSE pc' = [pc EXCEPT ![r] = "check"] /\ UNCHANGED error
    /\ UNCHANGED <<req, resp, locals, engines, result>>

\* The check of lines 136-138.  `"items" not in vacancies_data` raises
\* TypeError on a body that is no container; no "items", or a falsy one
\* (an empty list): return [].
NoItems(up) == up.kind = "no_items" \/ (up.kind = "items" /\ up.items = <<>>)

CheckItems(r) ==
    /\ pc[r] = "check"
    /\ IF resp[r].kind = "not_object"
       THEN Fail(r, "TypeError") /\ UNCHANGED result
       ELSE IF NoItems(resp[r])
       THEN /\ pc' = [pc EXCEPT ![r] = "done"]
            /\ result' = [result EXCEPT ![r] = <<>>]
            /\ UNCHANGED error
       ELSE pc' = [pc EXCEPT ![r] = "construct"] /\ UNCHANGED <<result, error>>
    /\ UNCHANGED <<req, resp, locals, engines>>

\* vacancies = []; engine = VacancyEngine(); engine.reset() (lines 141-143).
Construct(r) ==
    /\ pc[r] = "construct"
    /\ \E duplicates \in DuplicatePolicies :
         engines' = [engines EXCEPT ![EngineOf(r)] = Reset(NewEngine(duplicates))]
    /\ pc' = [pc EXCEPT ![r] = "loop"]
    /\ UNCHANGED <<req, resp, locals, result, error>>

\* `for vacancy in vacancies_data.get("items", [])` (line 145) on a value
\* that cannot be iterated: TypeError, with the engine built and reset.
LoopRaises(r) ==
    /\ pc[r] = "loop"
    /\ resp[r].kind = "items_not_iterable"
    /\ Fail(r, "TypeError")
    /\ UNCHANGED <<req, resp, locals, engines, result>>

\* One iteration of `for vacancy in items` (lines 145-162).
LoopStep(r) ==
    /\ pc[r] = "loop"
    /\ resp[r].kind = "items"
    /\ LET i == locals[r].i
           c == ConvertRecord(resp[r].items[i])
           d == Declare(engines[EngineOf(r)], c.fact)
       IN  IF c.err # "none"
           THEN /\ Fail(r, c.err)
                /\ locals' = [locals EXCEPT ![r].salary =
                                 IF c.salary = Absent THEN @ ELSE c.salary]
                /\ UNCHANGED engines
           ELSE /\ locals' = [locals EXCEPT ![r] = [salary |-> c.salary, i |-> i + 1]]
                /\ engines' = [engines EXCEPT ![EngineOf(r)] = d.engine]
                /\ IF d.err # "none"
                   THEN Fail(r, d.err)
                   ELSE /\ pc' = [pc EXCEPT ![r] =
                                    IF i = Len(resp[r].items) THEN "user" ELSE "loop"]
                        /\ UNCHANGED error
    /\ UNCHANGED <<req, resp, result>>

\* engine.declare(User(salaryPrefer=salary)) (line 165): salary is the
\* local variable, which the loop has reassigned (line 151).
DeclareUser(r) ==
    /\ pc[r] = "user"
    /\ LET d == Declare(engines[EngineOf(r)], User(locals[r].salary))
       IN  /\ engines' = [engines EXCEPT ![EngineOf(r)] = d.engine]
           /\ IF d.err # "none"
              THEN Fail(r, d.err)
              ELSE pc' = [pc EXCEPT ![r] = "location"] /\ UNCHANGED error
    /\ UNCHANGED <<req, resp, locals, result>>

\* engine.declare(InputLocation(inputLocation="Москва")) (line 166).
DeclareLocation(r) ==
    /\ pc[r] = "location"
    /\ LET d == Declare(engines[EngineOf(r)], InputLocation(PyStr("Moskva")))
       IN  /\ engines' = [engines EXCEPT ![EngineOf(r)] = d.engine]
           /\ IF d.err # "none"
              THEN Fail(r, d.err)
              ELSE pc' = [pc EXCEPT ![r] = "run"] /\ UNCHANGED error
    /\ UNCHANGED <<req, resp, locals, result>>

\* engine.run() (line 168) is entered.
RunStart(r) ==
    /\ pc[r] = "run"
    /\ engines' = [engines EXCEPT ![EngineOf(r)].running = TRUE]
    /\ pc' = [pc EXCEPT ![r] = "running"]
    /\ UNCHANGED <<req, resp, locals, result, error>>

\* One activation is executed (FireOne, its parts bound one by one).
Fire(r) ==
    /\ pc[r] = "running"
    /\ engines[EngineOf(r)].agenda # {}
    /\ \E e \in {engines[EngineOf(r)]} :
       \E t \in {NextActivation(e.agenda)} :
       \E facts \in {FactListDeclare(e.facts, RuleAction(e.facts[t.vac]), e.duplicates)} :
       \E f \in {Fired(e, t, facts)} :
           /\ engines' = [engines EXCEPT ![EngineOf(r)] = f.engine]
           /\ IF f.err # "none"
              THEN Fail(r, f.err)
              ELSE UNCHANGED <<pc, error>>
    /\ UNCHANGED <<req, resp, locals, result>>

\* The agenda is empty: run() returns.
RunEnd(r) ==
    /\ pc[r] = "running"
    /\ engines[EngineOf(r)].agenda = {}
    /\ engines' = [engines EXCEPT ![EngineOf(r)].running = FALSE]
    /\ pc' = [pc EXCEPT ![r] = "extract"]
    /\ UNCHANGED <<req, resp, locals, result, error>>

\* The answers are read and returned (lines 170-183).
ExtractResults(r) ==
    /\ pc[r] = "extract"
    /\ LET x == Extract(engines[EngineOf(r)].facts)
       IN  IF x.err # "none"
           THEN Fail(r, x.err) /\ UNCHANGED result
           ELSE /\ result' = [result EXCEPT ![r] = x.result]
                /\ pc' = [pc EXCEPT ![r] = "done"]
                /\ UNCHANGED error
    /\ UNCHANGED <<req, resp, locals, engines>>

\* The response is sent; the handler's frame and its engine are gone.
Finish(r) ==
    /\ pc[r] \in {"done", "failed"}
    /\ pc' = [pc EXCEPT ![r] = "idle"]
    /\ req' = [req EXCEPT ![r] = NoRequest]
    /\ resp' = [resp EXCEPT ![r] = NoResponse]
    /\ locals' = [locals EXCEPT ![r] = NoLocals]
    /\ engines' = [engines EXCEPT ![EngineOf(r)] = NoEngine]
    /\ result' = [result EXCEPT ![r] = <<>>]
    /\ error' = [error EXCEPT ![r] = "none"]

InitOn(slots) ==
    /\ pc = [r \in slots |-> "idle"]
    /\ req = [r \in slots |-> NoRequest]
    /\ resp = [r \in slots |-> NoResponse]
    /\ locals = [r \in slots |-> NoLocals]
    /\ engines = [r \in slots |-> NoEngine]
    /\ result = [r \in slots |-> <<>>]
    /\ error = [r \in slots |-> "none"]

\* One request, from its arrival to its response.
Init == InitOn({1})

Next ==
    \E r \in {1} :
        \/ Receive(r, RequestSalaries, UpstreamResponses)
        \/ Fetch(r) \/ ParseJson(r) \/ CheckItems(r) \/ Construct(r)
        \/ LoopRaises(r) \/ LoopStep(r) \/ DeclareUser(r) \/ DeclareLocation(r)
        \/ RunStart(r) \/ Fire(r) \/ RunEnd(r) \/ ExtractResults(r)

Spec == Init /\ [][Next]_vars

\* run() is a loop of synchronous code: while an activation is on the
\* agenda it is executed, and when there is none run() returns.
FairSpec == Spec /\ WF_vars(Fire(1)) /\ WF_vars(RunEnd(1))

----------------------------------------------------------------------------
(* find_jobs as a function of its inputs: the same steps, composed.        *)
RECURSIVE DeclareItems(_, _, _)
DeclareItems(e, salary, items) ==
    IF items = <<>> THEN [err |-> "none", engine |-> e, salary |-> salary]
    ELSE LET c == ConvertRecord(Head(items))
             d == Declare(e, c.fact)
         IN  IF c.err # "none"
             THEN [err |-> c.err, engine |-> e,
                   salary |-> IF c.salary = Absent THEN salary ELSE c.salary]
             ELSE IF d.err # "none"
             THEN [err |-> d.err, engine |-> d.engine, salary |-> c.salary]
             ELSE DeclareItems(d.engine, c.salary, Tail(items))

FindJobs(s, up, duplicates) ==
    LET failed(e) == [err |-> e, result |-> <<>>]
        loop == DeclareItems(Reset(NewEngine(duplicates)), PyInt(s), up.items)
        user == Declare(loop.engine, User(loop.salary))
        loc  == Declare(user.engine, InputLocation(PyStr("Moskva")))
        run  == RunToEnd([loc.engine EXCEPT !.running = TRUE])
    IN  IF up.kind = "http_error" THEN failed("HTTPException")
        ELSE IF up.kind = "bad_json" THEN failed("JSONDecodeError")
        ELSE IF up.kind = "not_object" THEN failed("TypeError")
        ELSE IF NoItems(up) THEN failed("none")
        ELSE IF up.kind = "items_not_iterable" THEN failed("TypeError")
        ELSE IF loop.err # "none" THEN failed(loop.err)
        ELSE IF user.err # "none" THEN failed(user.err)
        ELSE IF loc.err # "none" THEN failed(loc.err)
        ELSE IF run.err # "none" THEN failed(run.err)
        ELSE Extract(run.engine.facts)

----------------------------------------------------------------------------
(* The rule engine on its own: a driver resets a VacancyEngine, declares   *)
(* a list of facts in the order given, and runs it.  Vacancy facts are     *)
(* built from upstream records as find_jobs builds them; User facts carry  *)
(* an integer preference, or a string one.                                 *)
DriverRecords ==
    {Record(PyStr("dev"), Named("acme"), Named("SPb"), SalaryObj(PyInt(1), PyInt(2))),
     Record(PyStr("dev"), Named("acme"), Named("Moskva"), Absent),
     Record(PyStr("dev"), Named("acme"), Named("Moskva"), SalaryObj(PyNone, PyInt(2))),
     Record(PyStr("dev"), Named("acme"), Named("Moskva"), SalaryObj(PyInt(1), PyNone)),
     Record(PyStr("dev"), Named("acme"), Named("Moskva"), SalaryObj(PyStr("5"), PyStr("5")))}

DriverItems ==
    {User(PyInt(s)) : s \in {0, 1}}
    \cup {User(PyStr("5"))}
    \cup {InputLocation(PyStr("Moskva"))}
    \cup DriverRecords

FactOf(x) == IF IsObj(x) THEN ConvertRecord(x).fact ELSE x

Drive(r) ==
    /\ pc[r] = "drive"
    /\ LET i == locals[r].i
           d == Declare(engines[EngineOf(r)], FactOf(resp[r].items[i]))
       IN  /\ locals' = [locals EXCEPT ![r].i = i + 1]
           /\ engines' = [engines EXCEPT ![EngineOf(r)] = d.engine]
           /\ IF d.err # "none"
              THEN Fail(r, d.err)
              ELSE /\ pc' = [pc EXCEPT ![r] =
                               IF i = Len(resp[r].items) THEN "run" ELSE "drive"]
                   /\ UNCHANGED error
    /\ UNCHANGED <<req, resp, result>>

EngineInit ==
    /\ pc = [r \in {1} |-> "drive"]
    /\ req = [r \in {1} |-> NoRequest]
    /\ \E feed \in SeqsUpTo(DriverItems, MaxFeed) \ {<<>>} :
         resp = [r \in {1} |-> [kind |-> "feed", items |-> feed]]
    /\ locals = [r \in {1} |-> [salary |-> Absent, i |-> 1]]
    /\ \E duplicates \in DuplicatePolicies :
         engines = [r \in {1} |-> Reset(NewEngine(duplicates))]
    /\ result = [r \in {1} |-> <<>>]
    /\ error = [r \in {1} |-> "none"]

EngineNext ==
    \E r \in {1} :
        Drive(r) \/ RunStart(r) \/ Fire(r) \/ RunEnd(r) \/ ExtractResults(r)

EngineSpec == EngineInit /\ [][EngineNext]_vars

----------------------------------------------------------------------------
(* Two requests in flight at once.                                         *)
ConcRecords ==
    {Record(PyStr("dev"), Named("acme"), Named("Moskva"), PyInt(0)),
     Record(PyStr("qa"), Named("acme"), Named("Moskva"), PyInt(0)),
     Record(PyStr("ops"), Named("acme"), Named("Moskva"), PyNone),
     PyNone}

ConcResponses ==
    {[kind |-> "items", items |-> it] : it \in SeqsUpTo(ConcRecords, MaxConcItems)}

ConcInit == InitOn({1, 2})

ConcNext ==
    \E r \in {1, 2} :
        \/ Receive(r, {2}, ConcResponses)
        \/ Fetch(r) \/ ParseJson(r) \/ CheckItems(r) \/ Construct(r)
        \/ LoopStep(r) \/ DeclareUser(r) \/ DeclareLocation(r)
        \/ RunStart(r) \/ Fire(r) \/ RunEnd(r) \/ ExtractResults(r)
        \/ Finish(r)

ConcSpec == ConcInit /\ [][ConcNext]_vars

----------------------------------------------------------------------------
(* The steps of the handler compute what FindJobs computes.                *)
StepsAgree ==
    \A r \in Slots :
        pc[r] \in {"done", "failed"} /\ resp[r].kind # "feed" =>
            /\ FindJobs(req[r].salary, resp[r], engines[EngineOf(r)].duplicates)
                   = [err |-> error[r], result |-> result[r]]
            /\ resp[r].kind = "items" /\ resp[r].items # <<>> =>
                   LET loop == DeclareItems(Reset(NewEngine(engines[EngineOf(r)].duplicates)),
                                            PyInt(req[r].salary), resp[r].items)
                   IN  /\ loop.salary = locals[r].salary
                       /\ loop.err # "none" => loop.engine = engines[EngineOf(r)]

----------------------------------------------------------------------------
(* Properties.                                                             *)
Mem(r) == engines[EngineOf(r)].facts
FactsOfKind(facts, kind) == {facts[k] : k \in OfKind(facts, kind)}
Ended(r) == pc[r] \in {"done", "failed"}
WellFormed(rec) == ConvertRecord(rec).err = "none"

\* a <= b where Python orders a and b, false where it does not.
Within(a, b) == Orderable(a, b) /\ PyLeq(a, b)

\* The reference join: every (User, InputLocation, Vacancy) triple of the
\* fact list whose fields satisfy from <= preference <= to and whose
\* location is the input location.
BruteForce(facts) ==
    {t \in [user : OfKind(facts, "User"), loc : OfKind(facts, "InputLocation"),
            vac : OfKind(facts, "Vacancy")] :
        /\ Within(facts[t.vac].from_salary, facts[t.user].salaryPrefer)
        /\ Within(facts[t.user].salaryPrefer, facts[t.vac].to_salary)
        /\ facts[t.vac].location = facts[t.loc].inputLocation}

\* The vacancies of a request that satisfy the caller's criteria.
Wanted(r) ==
    {f \in {ConvertRecord(resp[r].items[k]).fact : k \in 1..Len(resp[r].items)} :
        /\ f.location = PyStr("Moskva")
        /\ Within(f.from_salary, PyInt(req[r].salary))
        /\ Within(PyInt(req[r].salary), f.to_salary)}

\* C1: for a query with salary preference s whose upstream fetch gives a
\* non-empty record list, the one User fact in working memory when run()
\* starts carries salaryPrefer = s, and the result is exactly the declared
\* vacancies in the input location whose range contains s.
C1_UserCarriesRequestSalary ==
    \A r \in Slots :
        /\ pc[r] \in {"location", "run"} =>
               FactsOfKind(Mem(r), "User") = {User(PyInt(req[r].salary))}
        /\ Ended(r) /\ resp[r].kind = "items" /\ resp[r].items # <<>>
             /\ (\A k \in 1..Len(resp[r].items) : WellFormed(resp[r].items[k])) =>
               /\ error[r] \in {"none", "ValidationError"}
               /\ error[r] = "none" =>
                      SeqRange(result[r]) = {VacancyResponse(f) : f \in Wanted(r)}

\* C3: a failure of the collaborator layer (HTTP error, body that is no
\* JSON or no JSON object, "items" that is no list, malformed record in
\* the item list) ends the query before any Vacancy, User or InputLocation
\* fact has been declared.
C3_FailsBeforeAnyDeclare ==
    \A r \in Slots :
        \/ error[r] \in {"HTTPException", "JSONDecodeError", "AttributeError"}
        \/ error[r] = "TypeError" /\ resp[r].kind \in {"not_object", "items_not_iterable"}
        =>
            \A k \in 1..Len(Mem(r)) :
                Mem(r)[k].kind \notin {"Vacancy", "User", "InputLocation"}

\* C5: the same well-formed records declared in another order, with the
\* same request, give the same outcome and the same set of answers.
C5_OrderIndependent ==
    \A r \in Slots :
        /\ Ended(r) /\ resp[r].kind = "items"
        /\ \A k \in 1..Len(resp[r].items) : WellFormed(resp[r].items[k])
        => \A p \in Permutations(1..Len(resp[r].items)) :
               LET other == [k \in 1..Len(resp[r].items) |-> resp[r].items[p[k]]]
                   o == FindJobs(req[r].salary, [resp[r] EXCEPT !.items = other],
                                 engines[EngineOf(r)].duplicates)
               IN  o.err = error[r] /\ SeqRange(o.result) = SeqRange(result[r])

\* C7: when the fetch succeeds and no answer is derived, find_jobs ends
\* normally with an empty list: both when the response has no items (no
\* "items" key, an empty list, a body that is null) and when records were
\* declared and none matched.
C7_NoMatchIsSuccess ==
    \A r \in Slots :
        /\ Ended(r) /\ resp[r].kind \in {"not_object", "no_items", "items"}
        /\ \A k \in 1..Len(resp[r].items) : WellFormed(resp[r].items[k])
        /\ OfKind(Mem(r), "AnswerVacancies") = {}
        => error[r] = "none" /\ result[r] = <<>>

\* The declared type of every field (lines 52-74).
WellTyped(f) ==
    IF f.kind \in {"Vacancy", "AnswerVacancies"}
    THEN /\ IsStr(f.position) /\ IsStr(f.company) /\ IsStr(f.location)
         /\ IsInt(f.from_salary) /\ IsInt(f.to_salary)
    ELSE IF f.kind = "User" THEN IsInt(f.salaryPrefer)
    ELSE IF f.kind = "InputLocation" THEN IsStr(f.inputLocation)
    ELSE TRUE

\* C9: every fact in working memory has a value of the declared type in
\* every field: str for position, company, location and inputLocation, int
\* for the salary bounds and salaryPrefer; none is None or absent.
C9_FactsFullyTyped ==
    \A r \in Slots : \A k \in 1..Len(Mem(r)) : WellTyped(Mem(r)[k])

----------------------------------------------------------------------------
(* Properties of the rule engine (EngineSpec).                             *)
RunCompleted(r) == pc[r] \in {"extract", "done"}
\* The activations run() has fired are exactly the triples of the
\* brute-force join, each once, and every AnswerVacancies fact is the
\* answer of one of them.  This part holds whatever the fact list does
\* with duplicates.
FiredIsJoin ==
    \A r \in Slots :
        RunCompleted(r) =>
            LET e == engines[EngineOf(r)]
            IN  /\ SeqRange(e.fired) = BruteForce(e.facts)
                /\ Len(e.fired) = Cardinality(BruteForce(e.facts))
                /\ FactsOfKind(e.facts, "AnswerVacancies")
                       \subseteq {RuleAction(e.facts[t.vac]) : t \in BruteForce(e.facts)}

Copies(seq, x) == Cardinality({k \in 1..Len(seq) : seq[k] = x})
DeclaredTwice(r) ==
    {FactOf(resp[r].items[k]) : k \in {m \in 1..(locals[r].i - 1) :
        \E j \in 1..(m - 1) : FactOf(resp[r].items[j]) = FactOf(resp[r].items[m])}}

MissingFrom(x) ==
    ~IsObj(x.obj.salary) \/ x.obj.salary.obj.from \in {PyNone, Absent}
MissingTo(x) ==
    ~IsObj(x.obj.salary) \/ x.obj.salary.obj.to \in {PyNone, Absent}
FiredFor(e, u, l, f) ==
    \E t \in SeqRange(e.fired) : t.user = u /\ t.loc = l /\ e.facts[t.vac] = f

\* C10: a salary bound the upstream record does not supply is declared as
\* 0: a vacancy without lower bound matches every preference s with
\* 0 <= s <= to_salary, a vacancy without upper bound (or without salary)
\* has to_salary = 0 and matches no preference s > 0.
C10_MissingBoundIsZero ==
    \A r \in Slots :
        \A k \in 1..(locals[r].i - 1) :
            LET x == resp[r].items[k]
                f == FactOf(x)
                e == engines[EngineOf(r)]
            IN  IsObj(x) =>
                  /\ f \in SeqRange(e.facts)
                  /\ MissingFrom(x) => f.from_salary = PyInt(0)
                  /\ MissingTo(x) => f.to_salary = PyInt(0)
                  /\ RunCompleted(r) =>
                       \A u \in OfKind(e.facts, "User"), l \in OfKind(e.facts, "InputLocation") :
                           LET s == e.facts[u].salaryPrefer
                           IN  IsInt(s) /\ e.facts[l].inputLocation = f.location =>
                                 /\ MissingFrom(x) /\ 0 <= s.int /\ Within(s, f.to_salary)
                                        => FiredFor(e, u, l, f)
                                 /\ MissingTo(x) /\ s.int > 0 => ~FiredFor(e, u, l, f)

\* A finished run with a vacancy without lower bound that has matched and
\* a vacancy without upper bound that a preference above 0 has not matched.
C10_Witness ==
    \E r \in Slots :
        /\ pc[r] = "done"
        /\ LET e == engines[EngineOf(r)]
           IN  \E a, b \in 1..Len(resp[r].items) :
                 LET x == resp[r].items[a]
                     y == resp[r].items[b]
                 IN  /\ IsObj(x) /\ MissingFrom(x) /\ ~MissingTo(x)
                     /\ IsObj(y) /\ MissingTo(y) /\ ~MissingFrom(y)
                     /\ \E u \in OfKind(e.facts, "User"), l \in OfKind(e.facts, "InputLocation") :
                          /\ IsInt(e.facts[u].salaryPrefer)
                          /\ e.facts[u].salaryPrefer.int > 0
                          /\ e.facts[l].inputLocation = FactOf(y).location
                          /\ FiredFor(e, u, l, FactOf(x))
                          /\ ~FiredFor(e, u, l, FactOf(y))

----------------------------------------------------------------------------
(* Properties of concurrent requests (ConcSpec).                           *)
\* `engine` is bound from line 142 on: in every later step, and when the
\* function has returned or raised after it (any end of a response that
\* passed the check of lines 136-138).
HasEngine(r) ==
    \/ pc[r] \in {"loop", "user", "location", "run", "running", "extract"}
    \/ /\ pc[r] \in {"done", "failed"}
       /\ resp[r].kind \in {"items", "items_not_iterable"}
       /\ ~NoItems(resp[r])
OwnVacancies(r) ==
    {ConvertRecord(resp[r].items[k]).fact : k \in 1..(locals[r].i - 1)}

\* C4: the working memory a request works on holds InitialFact and facts
\* of this request only: the Vacancy facts of the records it has declared
\* so far, its own User and InputLocation, and the answers to its own
\* vacancies; its result is drawn from its own vacancies.
C4_MemoryPerRequest ==
    \A r \in Slots :
        HasEngine(r) =>
            /\ Mem(r) # <<>> /\ Mem(r)[1] = InitialFact
            /\ FactsOfKind(Mem(r), "Vacancy") = OwnVacancies(r)
            /\ FactsOfKind(Mem(r), "User") \subseteq {User(locals[r].salary)}
            /\ FactsOfKind(Mem(r), "InputLocation") \subseteq {InputLocation(PyStr("Moskva"))}
            /\ FactsOfKind(Mem(r), "AnswerVacancies")
                   \subseteq {RuleAction(v) : v \in OwnVacancies(r)}
            /\ SeqRange(result[r])
                   \subseteq {VacancyResponse(RuleAction(v)) : v \in OwnVacancies(r)}

\* Two requests with different records in flight: one has returned its
\* result while the other, with its own Vacancy facts, is inside run().
C4_Witness ==
    /\ Slots = {1, 2}
    /\ pc[1] = "done" /\ pc[2] = "running"
    /\ result[1] # <<>>
    /\ resp[1] # resp[2]
    /\ OfKind(Mem(2), "Vacancy") # {}

----------------------------------------------------------------------------
(* Termination of run() inside find_jobs (FairSpec).                       *)
NoRepeat(seq) == \A j, k \in 1..Len(seq) : seq[j] = seq[k] => j = k

\* Every run started by find_jobs returns, having fired each matching
\* triple once and at most as many activations as there are Vacancy
\* facts.  This part holds whatever the fact list does with duplicates.
RunReturns ==
    /\ [](\A r \in {1} :
            LET e == engines[EngineOf(r)]
            IN  /\ NoRepeat(e.fired)
                /\ Len(e.fired) <= Cardinality(OfKind(e.facts, "Vacancy"))
                /\ pc[r] = "extract" => ~e.running /\ e.agenda = {})
    /\ \A r \in {1} : (pc[r] = "running") ~> (pc[r] = "extract")

====
